---------------------------- MODULE Spec2Model ----------------------------
(***************************************************************************)
(* haztrak: the handler / manifest-handler managers of                     *)
(* apps/trak/models/handler_model.py and the manifest service of           *)
(* apps/trak/services/manifest_service.py, as state machines over the      *)
(* relational store.                                                       *)
(*                                                                         *)
(* Rows of a table are kept in a sequence; a row's primary key is its      *)
(* position.  A python dict is a function whose DOMAIN is its key set.     *)
(***************************************************************************)
EXTENDS Integers, Sequences, FiniteSets, TLC

VARIABLES
    db,            \* the relational store: one sequence of rows per table
    last,          \* the most recent manager call: its payload, outcome, store before it
    prev,          \* the manager call before that one (operation, epa_id, result)
    calls,         \* number of manager calls made so far
    handler_data,  \* HandlerManager.handler_data: which caller's dict it references
    dicts,         \* the kwargs dict object of each concurrent HandlerManager.save call
    frames,        \* each concurrent call's position, locals, result
    batch,         \* pull_manifests: its argument, loop position, results, history
    search         \* search_rcra_mtn: its keyword arguments, the query sent, its result

vars == <<db, last, prev, calls, handler_data, dicts, frames, batch, search>>

---------------------------------------------------------------------------
(* Bounds and input domains *)

MaxCalls == 2
MaxEsig == 2
MaxLen == 2

MTNs == {"M1", "M2"}
EpaIds == {"VA1", "VA2"}
Tags == {"a", "b"}
Procs == {1, 2}

\* python None, as a row reference
None == 0

---------------------------------------------------------------------------
(* The store *)

EmptyDb ==
    [handlers |-> <<>>, addresses |-> <<>>, contacts |-> <<>>, phones |-> <<>>,
     papers |-> <<>>, esigs |-> <<>>, mhs |-> <<>>, manifests |-> <<>>]

\* objects.create(...) on a table: append the row, its key is the new length
Insert(d, table, row) == [d EXCEPT ![table] = Append(@, row)]

NewId(d, table) == Len(d[table]) + 1

\* Only({F(x) : x \in {e}}) is F(e), with e evaluated once
Only(S) == CHOOSE x \in S : TRUE

\* dict.pop(key) : the dict without the key
Pop(dict, key) == [k \in (DOMAIN dict) \ {key} |-> dict[k]]

\* (variant: a lookup that finds nothing)
HandlerNeverExists(d, hd) == FALSE

\* Handler.objects.filter(epa_id=epa_id).exists(); a lookup with an absent
\* key (None) matches no row, the column is not nullable
HandlerExists(d, hd) ==
    /\ "epa_id" \in DOMAIN hd
    /\ \E i \in 1..Len(d.handlers) : d.handlers[i].epa_id = hd.epa_id

\* Handler.objects.get(epa_id=epa_id)
HandlerGet(d, hd) ==
    CHOOSE i \in 1..Len(d.handlers) : d.handlers[i].epa_id = hd.epa_id

\* (variant: the column not declared unique)
EpaIdNotUnique(d, epa) == FALSE

\* unique=True on Handler.epa_id: an insert of a taken epa_id is refused
EpaIdTaken(d, epa) == \E i \in 1..Len(d.handlers) : d.handlers[i].epa_id = epa

---------------------------------------------------------------------------
(* HandlerManager.save, statement by statement.  A machine m is            *)
(* [db, hd, dicts, fr]: the store, the manager's handler_data reference,   *)
(* the dict object of every call, and every call's frame.                  *)

\* a call's frame: pc is the statement it is at, "at" the statement it ended
\* in, arg the keyword arguments it was called with
NewFrame ==
    [pc |-> "check", new_contact |-> None, emergency_phone |-> None,
     site_address |-> None, mail_address |-> None, ret |-> None, exc |-> "none",
     at |-> "none", arg |-> <<>>]

IdleFrame == [NewFrame EXCEPT !.pc = "idle"]

Terminal == {"returned", "raised"}

\* the keyword arguments save() passes explicitly to super().save()
ExplicitKw == {"site_address", "mail_address", "emergency_phone", "contact"}

Return(m, p, value) ==
    [m EXCEPT !.fr[p].pc = "returned", !.fr[p].ret = value, !.fr[p].at = m.fr[p].pc]

Raise(m, p, e) ==
    [m EXCEPT !.fr[p].pc = "raised", !.fr[p].exc = e, !.fr[p].at = m.fr[p].pc]

\* (variant: a bare "except Exception")
SaveCatchesAll(e) == TRUE

\* except KeyError as exc: logger.warning(...)   (the call then returns None)
SaveCatches(e) == e = "KeyError"

Throw(m, p, e) ==
    IF SaveCatches(e) THEN Return(m, p, None) ELSE Raise(m, p, e)

\* (variant: the lookup left out)
StepCheckNoLookup(m, p) == [m EXCEPT !.fr[p].pc = "assign"]

\* lines 35-37
StepCheck(m, p) ==
    IF HandlerExists(m.db, m.dicts[p])
    THEN Return(m, p, HandlerGet(m.db, m.dicts[p]))
    ELSE [m EXCEPT !.fr[p].pc = "assign"]

\* line 38
StepAssign(m, p) == [m EXCEPT !.hd = p, !.fr[p].pc = "contact"]

\* (variant: the contact popped with a default, an empty Contact made of it)
StepContactDefault(m, p) ==
    LET r == m.hd
        d == m.dicts[r]
    IN  [m EXCEPT !.dicts[r] = Pop(d, "contact"),
                  !.db = Insert(m.db, "contacts", ""),
                  !.fr[p].new_contact = NewId(m.db, "contacts"),
                  !.fr[p].pc = "phone"]

\* line 39
StepContact(m, p) ==
    LET r == m.hd
        d == m.dicts[r]
    IN  IF "contact" \notin DOMAIN d
        THEN Throw(m, p, "KeyError")
        ELSE [m EXCEPT !.dicts[r] = Pop(d, "contact"),
                       !.db = Insert(m.db, "contacts", d.contact),
                       !.fr[p].new_contact = NewId(m.db, "contacts"),
                       !.fr[p].pc = "phone"]

\* lines 53-61, called at line 40
get_emergency_phone(m, p) ==
    LET r == m.hd
        d == m.dicts[r]
    IN  IF "emergency_phone" \notin DOMAIN d
        THEN [m EXCEPT !.fr[p].emergency_phone = None, !.fr[p].pc = "site"]
        ELSE IF d.emergency_phone = "null"
        THEN [m EXCEPT !.dicts[r] = Pop(d, "emergency_phone"),
                       !.fr[p].emergency_phone = None,
                       !.fr[p].pc = "site"]
        ELSE [m EXCEPT !.dicts[r] = Pop(d, "emergency_phone"),
                       !.db = Insert(m.db, "phones", d.emergency_phone),
                       !.fr[p].emergency_phone = NewId(m.db, "phones"),
                       !.fr[p].pc = "site"]

\* isinstance(address, Address)
IsAddress(v) == v.kind = "ref"

\* (variant: no isinstance test, a row is created from whatever was passed)
get_address_always_creates(m, p, key, next) ==
    LET r == m.hd
        d == m.dicts[r]
    IN  IF key \notin DOMAIN d
        THEN Throw(m, p, "ValidationError")
        ELSE [m EXCEPT !.dicts[r] = Pop(d, key),
                       !.db = Insert(m.db, "addresses", d[key].data),
                       !.fr[p][key] = NewId(m.db, "addresses"),
                       !.fr[p].pc = next]

\* lines 63-72, called at lines 41 and 42
get_address(m, p, key, next) ==
    LET r == m.hd
        d == m.dicts[r]
    IN  IF key \notin DOMAIN d
        THEN Throw(m, p, "ValidationError")
        ELSE IF IsAddress(d[key])
        THEN [m EXCEPT !.dicts[r] = Pop(d, key),
                       !.fr[p][key] = d[key].id,
                       !.fr[p].pc = next]
        ELSE [m EXCEPT !.dicts[r] = Pop(d, key),
                       !.db = Insert(m.db, "addresses", d[key].data),
                       !.fr[p][key] = NewId(m.db, "addresses"),
                       !.fr[p].pc = next]

\* a CharField the payload does not give is stored as the empty string
Scalar(d, key) == IF key \in DOMAIN d THEN d[key] ELSE ""

\* lines 43-49: super().save(site_address=..., ..., **self.handler_data)
StepCreate(m, p) ==
    LET d == m.dicts[m.hd]
        f == m.fr[p]
        row == [epa_id |-> Scalar(d, "epa_id"), name |-> Scalar(d, "name"),
                contact |-> f.new_contact, emergency_phone |-> f.emergency_phone,
                site_address |-> f.site_address, mail_address |-> f.mail_address]
    IN  IF (DOMAIN d) \cap ExplicitKw # {}
        THEN Throw(m, p, "TypeError")
        ELSE IF EpaIdTaken(m.db, row.epa_id)
        THEN Throw(m, p, "IntegrityError")
        ELSE Return([m EXCEPT !.db = Insert(m.db, "handlers", row)], p,
                    NewId(m.db, "handlers"))

HStep(m, p) ==
    CASE m.fr[p].pc = "check" -> StepCheck(m, p)
      [] m.fr[p].pc = "assign" -> StepAssign(m, p)
      [] m.fr[p].pc = "contact" -> StepContact(m, p)
      [] m.fr[p].pc = "phone" -> get_emergency_phone(m, p)
      [] m.fr[p].pc = "site" -> get_address(m, p, "site_address", "mail")
      [] m.fr[p].pc = "mail" -> get_address(m, p, "mail_address", "create")
      [] m.fr[p].pc = "create" -> StepCreate(m, p)
      [] OTHER -> m

RECURSIVE Run(_, _)
Run(m, p) == IF m.fr[p].pc \in Terminal THEN m ELSE Run(HStep(m, p), p)

\* one whole call of HandlerManager.save(**hd) on store d, nothing interleaved
HandlerManager_save(d, hd) ==
    Only({[db |-> m.db, ret |-> m.fr[1].ret, exc |-> m.fr[1].exc] :
            m \in {Run([db |-> d, hd |-> None, dicts |-> <<hd>>, fr |-> <<NewFrame>>], 1)}})

---------------------------------------------------------------------------
(* ManifestHandlerManager.save and ManifestHandler.signed *)

\* ESignature.objects.save(manifest_handler=mh, **entry): one ESignature row
\* referencing mh; an entry lacking a key it needs raises KeyError, any
\* other defect of the entry raises a database error
ESignature_save(d, mh, entry) ==
    CASE entry = "nokey" -> [db |-> d, exc |-> "KeyError"]
      [] entry = "invalid" -> [db |-> d, exc |-> "IntegrityError"]
      [] OTHER -> [db |-> Insert(d, "esigs", [manifest_handler |-> mh]), exc |-> "none"]

\* (variant: only the first entry attached)
AttachESignaturesHeadOnly(d, mh, entries) ==
    IF entries = <<>> THEN [db |-> d, exc |-> "none"]
    ELSE ESignature_save(d, mh, Head(entries))

\* lines 185-189: the loop stops at the first entry that raises
RECURSIVE AttachESignatures(_, _, _)
AttachESignatures(d, mh, entries) ==
    IF entries = <<>> THEN [db |-> d, exc |-> "none"]
    ELSE Only({IF r.exc # "none" THEN r ELSE AttachESignatures(r.db, mh, Tail(entries)) :
                 r \in {ESignature_save(d, mh, Head(entries))}})

\* (variant: the validation failure handled like the lookup failure)
MHCatchesBoth(e) == e \in {"KeyError", "ValidationError"}

\* lines 191-195: KeyError is logged and swallowed (the call returns None),
\* ValidationError is logged and raised again, anything else passes through
MHCatches(e) == e = "KeyError"

MHOutcome(d, value, e) ==
    IF e = "none" THEN [db |-> d, ret |-> value, exc |-> "none"]
    ELSE IF MHCatches(e) THEN [db |-> d, ret |-> None, exc |-> "none"]
    ELSE [db |-> d, ret |-> None, exc |-> e]

\* lines 169-170: the paper signature row is created before the try block
PaperSignatureCreate(d, md) ==
    IF "paper_signature" \in DOMAIN md
    THEN [db |-> Insert(d, "papers", md.paper_signature), ref |-> NewId(d, "papers")]
    ELSE [db |-> d, ref |-> None]

\* (variant: the paper signature not passed on to the new row)
ManifestHandlerCreateNoPaper(d, handler, paper) ==
    IF handler = None
    THEN [db |-> d, ref |-> None, exc |-> "IntegrityError"]
    ELSE [db |-> Insert(d, "mhs", [handler |-> handler, paper_signature |-> None]),
          ref |-> NewId(d, "mhs"), exc |-> "none"]

\* (variant: the foreign key declared null=True)
ManifestHandlerCreateNullable(d, handler, paper) ==
    [db |-> Insert(d, "mhs", [handler |-> handler, paper_signature |-> paper]),
     ref |-> NewId(d, "mhs"), exc |-> "none"]

\* lines 179-183: ManifestHandler.handler is a non-null foreign key
ManifestHandlerCreate(d, handler, paper) ==
    IF handler = None
    THEN [db |-> d, ref |-> None, exc |-> "IntegrityError"]
    ELSE [db |-> Insert(d, "mhs", [handler |-> handler, paper_signature |-> paper]),
          ref |-> NewId(d, "mhs"), exc |-> "none"]

\* lines 172-178: reuse the Handler of that epa_id, or have HandlerManager make it
ResolveHandler(d, md) ==
    IF "handler" \notin DOMAIN md \/ "epa_id" \notin DOMAIN md.handler
    THEN [db |-> d, ret |-> None, exc |-> "KeyError"]
    ELSE IF HandlerExists(d, md.handler)
    THEN [db |-> d, ret |-> HandlerGet(d, md.handler), exc |-> "none"]
    ELSE HandlerManager_save(d, md.handler)

\* lines 164-167
ESignatureEntries(md) ==
    IF "e_signatures" \in DOMAIN md THEN md.e_signatures ELSE <<>>

\* lines 185-190, for the new row mh
MHSigned(mh, e_signatures) ==
    IF mh.exc # "none" THEN MHOutcome(mh.db, None, mh.exc)
    ELSE Only({MHOutcome(es.db, mh.ref, es.exc) :
                 es \in {AttachESignatures(mh.db, mh.ref, e_signatures)}})

\* lines 179-190, for the resolved handler h and the paper signature ps
MHCreated(h, ps, e_signatures) ==
    IF h.exc # "none" THEN MHOutcome(h.db, None, h.exc)
    ELSE Only({MHSigned(mh, e_signatures) :
                 mh \in {ManifestHandlerCreate(h.db, h.ret, ps.ref)}})

\* lines 171-190, after the paper signature ps
MHResolved(ps, md) ==
    Only({MHCreated(h, ps, ESignatureEntries(md)) : h \in {ResolveHandler(ps.db, md)}})

\* lines 163-195, one whole call
ManifestHandlerManager_save(d, md) ==
    Only({MHResolved(ps, md) : ps \in {PaperSignatureCreate(d, md)}})

\* lines 219-224
signed(d, mh) ==
    LET e_signature_exists ==
            \E i \in 1..Len(d.esigs) : d.esigs[i].manifest_handler = mh
        paper_signature_exists == d.mhs[mh].paper_signature # None
    IN  paper_signature_exists \/ e_signature_exists

---------------------------------------------------------------------------
(* Payloads the callers pass *)

Absent == [kind |-> "absent", id |-> None, data |-> ""]

Raw(t) == [kind |-> "raw", id |-> None, data |-> t]

Ref(a) == [kind |-> "ref", id |-> a, data |-> ""]

\* an address input: raw fields, or an Address that exists (the oldest or the newest)
AddressInputs(d, t) ==
    {Raw(t)} \cup {Ref(a) : a \in {1, Len(d.addresses)} \cap (1..Len(d.addresses))}

\* a handler dict: every nested block carries the payload's tag t
HandlerData(e, t, c, ph, s, ma) ==
    LET keys == {"name"}
                  \cup (IF e # "absent" THEN {"epa_id"} ELSE {})
                  \cup (IF c THEN {"contact"} ELSE {})
                  \cup (IF ph # "absent" THEN {"emergency_phone"} ELSE {})
                  \cup (IF s # Absent THEN {"site_address"} ELSE {})
                  \cup (IF ma # Absent THEN {"mail_address"} ELSE {})
    IN  [k \in keys |->
            CASE k = "epa_id" -> e
              [] k = "name" -> t
              [] k = "contact" -> t
              [] k = "emergency_phone" -> (IF ph = "null" THEN "null" ELSE t)
              [] k = "site_address" -> s
              [] k = "mail_address" -> ma]

\* complete payloads, the emergency phone absent, null or given
PhonePayloads ==
    {HandlerData(e, t, TRUE, ph, Raw(t), Raw(t)) :
        e \in EpaIds, t \in Tags, ph \in {"absent", "null", "data"}}

\* complete payloads, each address raw or a reference
AddressPayloads(d) ==
    {HandlerData(e, "a", TRUE, "data", s, ma) :
        e \in EpaIds, s \in AddressInputs(d, "a"), ma \in AddressInputs(d, "a")}

\* payloads lacking one or more of the nested blocks, or the epa_id
DefectivePayloads ==
    {HandlerData(e, "a", c, "data", s, ma) :
        e \in EpaIds \cup {"absent"}, c \in BOOLEAN,
        s \in {Absent, Raw("a")}, ma \in {Absent, Raw("a")}}

HandlerPayloads(d) == PhonePayloads \cup AddressPayloads(d) \cup DefectivePayloads

\* the nested handler blocks of a manifest handler payload
NestedHandlers ==
    {HandlerData(e, t, TRUE, "data", Raw(t), Raw(t)) : e \in EpaIds, t \in Tags}
        \cup {HandlerData("absent", "a", TRUE, "data", Raw("a"), Raw("a")),
              HandlerData("VA1", "a", FALSE, "data", Raw("a"), Raw("a")),
              HandlerData("VA1", "a", TRUE, "absent", Absent, Raw("a")),
              HandlerData("VA1", "a", TRUE, "null", Raw("a"), Absent)}

\* e_signatures lists: n good entries, or n good entries and then a bad one
\* (the loop never reads past the first entry that raises)
Good(n) == [i \in 1..n |-> "ok"]

ESigLists ==
    {Good(n) : n \in 0..MaxEsig}
        \cup {Append(Good(n), b) : n \in 0..(MaxEsig - 1), b \in {"nokey", "invalid"}}

ManifestHandlerData(h, ps, es) ==
    LET keys == (IF h # <<>> THEN {"handler"} ELSE {})
                  \cup (IF ps # "absent" THEN {"paper_signature"} ELSE {})
                  \cup (IF es # <<"absent">> THEN {"e_signatures"} ELSE {})
    IN  [k \in keys |->
            CASE k = "handler" -> h
              [] k = "paper_signature" -> ps
              [] k = "e_signatures" -> es]

\* a complete nested handler under every combination of signature blocks
SignaturePayloads ==
    {ManifestHandlerData(HandlerData(e, "a", TRUE, "data", Raw("a"), Raw("a")), ps, es) :
        e \in EpaIds, ps \in {"absent", "a"}, es \in ESigLists \cup {<<"absent">>}}

\* every nested handler block (or none), with and without signatures
NestedPayloads ==
    {ManifestHandlerData(h, ps, es) :
        h \in NestedHandlers \cup {<<>>}, ps \in {"absent", "a"},
        es \in {<<"absent">>, <<"ok">>}}

ManifestHandlerPayloads == SignaturePayloads \cup NestedPayloads

---------------------------------------------------------------------------
(* ManifestService: _retrieve_manifest, _save_manifest, pull_manifests *)

\* ManifestSerializer(data=manifest_json).is_valid()
is_valid(json) == json.wellformed

\* Manifest rows: mtn identifies a Manifest, and a Manifest has its handlers
ManifestCreate(d, mtn, handlers) ==
    IF \E k \in 1..Len(handlers) : handlers[k] = None
    THEN [db |-> d, ret |-> None, exc |-> "IntegrityError"]
    ELSE IF \E k \in 1..Len(d.manifests) : d.manifests[k].mtn = mtn
    THEN [db |-> d, ret |-> None, exc |-> "IntegrityError"]
    ELSE [db |-> Insert(d, "manifests", [mtn |-> mtn, handlers |-> handlers]),
          ret |-> NewId(d, "manifests"), exc |-> "none"]

\* serializer.save(): every nested handler block goes through
\* ManifestHandlerManager.save, then the Manifest row is created
RECURSIVE SaveHandlers(_, _, _)
SaveHandlers(d, blocks, made) ==
    IF blocks = <<>> THEN [db |-> d, ret |-> made, exc |-> "none"]
    ELSE Only({IF r.exc # "none" THEN [db |-> r.db, ret |-> made, exc |-> r.exc]
               ELSE SaveHandlers(r.db, Tail(blocks), Append(made, r.ret)) :
                 r \in {ManifestHandlerManager_save(d, Head(blocks))}})

serializer_save(d, json) ==
    Only({IF hs.exc # "none" THEN [db |-> hs.db, ret |-> None, exc |-> hs.exc]
          ELSE ManifestCreate(hs.db, json.mtn, hs.ret) :
            hs \in {SaveHandlers(d, json.handlers, <<>>)}})

\* (variant: the decorator left off, every insert commits as it is made)
not_atomic(d, r) == r

\* line 40, @transaction.atomic: an exception leaving the block restores
\* the store the block started with
transaction_atomic(d, r) == IF r.exc # "none" THEN [r EXCEPT !.db = d] ELSE r

\* lines 41-50, without the decorator
save_manifest_body(d, json) ==
    IF is_valid(json)
    THEN serializer_save(d, json)
    ELSE [db |-> d, ret |-> None, exc |-> "Exception"]

\* lines 40-50; "attempt" is the store as the body left it
_save_manifest(d, json) ==
    Only({Only({[db |-> t.db, ret |-> t.ret, exc |-> t.exc, attempt |-> r.db] :
                  t \in {transaction_atomic(d, r)}}) :
            r \in {save_manifest_body(d, json)}})

\* (variant: the body returned whatever response.ok is)
retrieve_ignores_ok(mtn, response) == [ret |-> response.json, exc |-> "none"]

\* lines 31-38
_retrieve_manifest(mtn, response) ==
    IF response.ok
    THEN [ret |-> response.json, exc |-> "none"]
    ELSE [ret |-> <<>>, exc |-> "RequestException"]

\* (variant: only the retrieval error is handled)
PullCatchesRequestException(e) == e = "RequestException"

\* line 125, except Exception: every error modelled here is an Exception
PullCatches(e) == TRUE

\* the manifest handler blocks the external system sends
CompleteHandler(e) == HandlerData(e, "a", TRUE, "data", Raw("a"), Raw("a"))

BatchBlocks ==
    {ManifestHandlerData(CompleteHandler("VA1"), "a", <<"ok">>),
     ManifestHandlerData(CompleteHandler("VA2"), "absent", <<"absent">>),
     ManifestHandlerData(CompleteHandler("VA2"), "a", <<"ok", "invalid">>),
     ManifestHandlerData(CompleteHandler("VA2"), "absent", <<"ok", "nokey">>),
     ManifestHandlerData(HandlerData("VA2", "a", TRUE, "data", Raw("a"), Absent),
                         "absent", <<"absent">>),
     ManifestHandlerData(HandlerData("VA2", "a", TRUE, "data", Absent, Raw("a")),
                         "a", <<"ok">>),
     ManifestHandlerData(HandlerData("VA2", "a", FALSE, "data", Raw("a"), Raw("a")),
                         "a", <<"absent">>),
     ManifestHandlerData(<<>>, "a", <<"absent">>)}

GeneratorBlock == ManifestHandlerData(CompleteHandler("VA1"), "a", <<"ok">>)

\* manifest documents: one handler block, or a good generator and a second block
ManifestBodies ==
    {[mtn |-> n, wellformed |-> TRUE, handlers |-> hs] :
        n \in MTNs,
        hs \in {<<b>> : b \in BatchBlocks} \cup {<<GeneratorBlock, b>> : b \in BatchBlocks}}
      \cup {[mtn |-> n, wellformed |-> FALSE, handlers |-> <<>>] : n \in MTNs}

\* the body of a response that is not ok: an error document, not a manifest
ErrorBody == [mtn |-> "", wellformed |-> FALSE, handlers |-> <<>>]

Responses ==
    {[ok |-> TRUE, json |-> b] : b \in ManifestBodies} \cup {[ok |-> FALSE, json |-> ErrorBody]}

TrackingNumberLists == UNION {[1..n -> MTNs] : n \in 0..MaxLen}

NoItem ==
    [stage |-> "none", mtn |-> "", ok |-> FALSE, doc |-> <<>>, exc |-> "none",
     pre |-> EmptyDb, attempt |-> EmptyDb]

\* pc, the argument, the loop position i, the results dict; then history:
\* the MTNs fetched so far, one entry per appended result, the last item
NoBatch ==
    [pc |-> "idle", tracking_numbers |-> <<>>, i |-> 1,
     results |-> [success |-> <<>>, error |-> <<>>],
     fetched |-> <<>>, log |-> <<>>, item |-> NoItem]

\* line 119: a caller calls pull_manifests(tracking_numbers)
PullStart ==
    /\ batch.pc = "idle"
    /\ \E tns \in TrackingNumberLists :
          batch' = [NoBatch EXCEPT !.pc = "loop", !.tracking_numbers = tns]
    /\ UNCHANGED <<db, last, prev, calls, handler_data, dicts, frames, search>>

\* lines 120-127: one turn of the loop, for the response the gateway gives
PullRecord(b, d, mtn, response, got, sv) ==
    LET item == [stage |-> IF got.exc = "none" THEN "save" ELSE "retrieve",
                 mtn |-> mtn, ok |-> response.ok, doc |-> got.ret, exc |-> sv.exc,
                 pre |-> d, attempt |-> sv.attempt]
        seen == [b EXCEPT !.fetched = Append(@, mtn), !.item = item]
    IN  IF sv.exc = "none"
        THEN [db |-> sv.db,
              batch |-> [seen EXCEPT !.results.success = Append(@, sv.db.manifests[sv.ret].mtn),
                                     !.log = Append(@, [list |-> "success", index |-> b.i,
                                                         mtn |-> sv.db.manifests[sv.ret].mtn]),
                                     !.i = @ + 1]]
        ELSE IF PullCatches(sv.exc)
        THEN [db |-> sv.db,
              batch |-> [seen EXCEPT !.results.error = Append(@, mtn),
                                     !.log = Append(@, [list |-> "error", index |-> b.i, mtn |-> mtn]),
                                     !.i = @ + 1]]
        ELSE [db |-> sv.db, batch |-> [seen EXCEPT !.pc = "raised"]]

PullSaved(b, d, mtn, response, got) ==
    Only({PullRecord(b, d, mtn, response, got, sv) :
            sv \in {IF got.exc = "none" THEN _save_manifest(d, got.ret)
                    ELSE [db |-> d, ret |-> None, exc |-> got.exc, attempt |-> d]}})

PullOutcome(b, d, mtn, response) ==
    Only({PullSaved(b, d, mtn, response, got) : got \in {_retrieve_manifest(mtn, response)}})

PullItem ==
    /\ batch.pc = "loop"
    /\ batch.i <= Len(batch.tracking_numbers)
    /\ \E response \in Responses :
          \E o \in {PullOutcome(batch, db, batch.tracking_numbers[batch.i], response)} :
              db' = o.db /\ batch' = o.batch
    /\ UNCHANGED <<last, prev, calls, handler_data, dicts, frames, search>>

\* line 128
PullReturn ==
    /\ batch.pc = "loop"
    /\ batch.i > Len(batch.tracking_numbers)
    /\ batch' = [batch EXCEPT !.pc = "done"]
    /\ UNCHANGED <<db, last, prev, calls, handler_data, dicts, frames, search>>

BatchNext == PullStart \/ PullItem \/ PullReturn

---------------------------------------------------------------------------
(* ManifestService.search_rcra_mtn.  Values are tagged records: a str, a   *)
(* datetime (whole seconds and microseconds), or None.                     *)

PyNone == [type |-> "None"]

Str(x) == [type |-> "str", val |-> x]

DateTime(sec, us) == [type |-> "datetime", sec |-> sec, us |-> us]

\* the keyword-only parameters, lines 55-61
SearchKeywords ==
    {"site_id", "start_date", "end_date", "status", "date_type", "state_code", "site_type"}

\* the defaults of the signature, lines 55-61
Default(key) == IF key = "date_type" THEN Str("UpdatedDate") ELSE PyNone

Arg(kw, key) == IF key \in DOMAIN kw THEN kw[key] ELSE Default(key)

\* "if end_date:", "if start_date:"
Truthy(v) == v # PyNone

\* .replace(tzinfo=timezone.utc).strftime("%Y-%m-%dT%H:%M:%SZ"): the text
\* shows the wall-clock time to the second, microseconds are not shown
strftime(dt) == [type |-> "str", val |-> <<"Z", dt.sec>>]

\* timedelta(minutes=60 * 24 * 30 * 12), in seconds
StartWindow == 60 * 24 * 30 * 12 * 60

\* lines 76-79; now1 is the clock read at line 79
EndDate(kw, now1) ==
    IF Truthy(Arg(kw, "end_date")) THEN strftime(Arg(kw, "end_date")) ELSE strftime(now1)

\* lines 80-88; now2 is the clock read at line 85
StartDate(kw, now2) ==
    IF Truthy(Arg(kw, "start_date")) THEN strftime(Arg(kw, "start_date"))
    ELSE strftime(DateTime(now2.sec - StartWindow, now2.us))

\* lines 91-99
search_params(kw, now1, now2) ==
    [stateCode |-> Arg(kw, "state_code"),
     siteId |-> Arg(kw, "site_id"),
     status |-> Arg(kw, "status"),
     dateType |-> Arg(kw, "date_type"),
     siteType |-> Arg(kw, "site_type"),
     endDate |-> EndDate(kw, now1),
     startDate |-> StartDate(kw, now2)]

\* (variant: nothing removed)
keep_all(params) == params

\* line 101: {k: v for k, v in search_params.items() if v is not None}
filtered_params(params) ==
    [k \in {x \in DOMAIN params : params[x] # PyNone} |-> params[k]]

\* response.json(): the body parsed, or an error when the body is not JSON
response_json(response) ==
    IF response.parses THEN [ret |-> response.json, exc |-> "none"]
    ELSE [ret |-> <<>>, exc |-> "JSONDecodeError"]

\* lines 104-109: line 105 formats response.json() into its debug message
\* before response.ok is read, whatever the log level is
search_result(response) ==
    IF response_json(response).exc # "none" THEN response_json(response)
    ELSE IF response.ok THEN response_json(response)
    ELSE [ret |-> <<>>, exc |-> "none"]

\* the clock: two readings a second apart, each with a microsecond part
Clock == {DateTime(1700000000, 250000), DateTime(1700000001, 0)}

Later(t1, t2) == t2.sec > t1.sec \/ (t2.sec = t1.sec /\ t2.us >= t1.us)

\* what a caller may pass for a keyword: nothing, None, or a value
Unsupplied == [type |-> "unsupplied"]

KeywordValues(key) ==
    CASE key = "site_id" -> {Str("VAT000000000")}
      [] key = "status" -> {Str("Signed")}
      [] key = "date_type" -> {Str("CertifiedDate")}
      [] key = "state_code" -> {Str("VA")}
      [] key = "site_type" -> {Str("Generator")}
      [] key = "start_date" -> {DateTime(1699000000, 999999)}
      [] key = "end_date" -> {DateTime(1699990000, 1)}

Choices(key) == {Unsupplied, PyNone} \cup KeywordValues(key)

Kwargs(c) == [k \in {x \in DOMAIN c : c[x] # Unsupplied} |-> c[k]]

SearchKwargs ==
    {Kwargs([site_id |-> a, start_date |-> b, end_date |-> c, status |-> d,
             date_type |-> e, state_code |-> f, site_type |-> g]) :
        a \in Choices("site_id"), b \in Choices("start_date"),
        c \in Choices("end_date"), d \in Choices("status"),
        e \in Choices("date_type"), f \in Choices("state_code"),
        g \in Choices("site_type")}

\* what the gateway may answer: a list of MTNs, an error document, or a
\* body that is not JSON (an empty body, a proxy's error page)
SearchResponses ==
    {[ok |-> TRUE, json |-> <<>>, parses |-> TRUE],
     [ok |-> TRUE, json |-> <<"M1", "M2">>, parses |-> TRUE],
     [ok |-> FALSE, json |-> <<"error">>, parses |-> TRUE],
     [ok |-> TRUE, json |-> <<>>, parses |-> FALSE],
     [ok |-> FALSE, json |-> <<>>, parses |-> FALSE]}

NoSearch ==
    [pc |-> "idle", kwargs |-> <<>>, now |-> <<>>, params |-> <<>>,
     response |-> <<>>, ret |-> <<>>, exc |-> "none"]

\* lines 75-104: the query is built and handed to rcrainfo.search_mtn
SearchSend ==
    /\ search.pc = "idle"
    /\ \E kw \in SearchKwargs, now1 \in Clock, now2 \in Clock :
          /\ Later(now1, now2)
          /\ search' = [search EXCEPT !.pc = "sent", !.kwargs = kw,
                                      !.now = <<now1, now2>>,
                                      !.params = filtered_params(search_params(kw, now1, now2))]
    /\ UNCHANGED <<db, last, prev, calls, handler_data, dicts, frames, batch>>

\* lines 104-109: the gateway answers and search_rcra_mtn returns
SearchReturn ==
    /\ search.pc = "sent"
    /\ \E response \in SearchResponses :
          \E r \in {search_result(response)} :
              search' = [search EXCEPT !.pc = IF r.exc = "none" THEN "returned" ELSE "raised",
                                          !.response = response,
                                          !.ret = r.ret, !.exc = r.exc]
    /\ UNCHANGED <<db, last, prev, calls, handler_data, dicts, frames, batch>>

SearchNext == SearchSend \/ SearchReturn

---------------------------------------------------------------------------
(* Sequential use of the two managers *)

NoFrames == [p \in Procs |-> IdleFrame]

NoCall == [op |-> "none", arg |-> <<>>, ret |-> None, exc |-> "none", pre |-> EmptyDb]

Summary(c) ==
    [op |-> c.op,
     epa_id |-> IF c.op = "HandlerManager.save" /\ "epa_id" \in DOMAIN c.arg
                THEN c.arg.epa_id ELSE "",
     ret |-> c.ret]

Init ==
    /\ db = EmptyDb
    /\ last = NoCall
    /\ prev = Summary(NoCall)
    /\ calls = 0
    /\ handler_data = None
    /\ dicts = [p \in Procs |-> <<>>]
    /\ frames = NoFrames
    /\ batch = NoBatch
    /\ search = NoSearch

\* One whole manager call, nothing interleaved.  HandlerManager.handler_data
\* is rebound at line 38 before any statement of the call reads it, so what
\* an earlier call left in it cannot reach a later one; the reference is
\* followed statement by statement in the concurrent specification below.
Record(op, arg, r) ==
    /\ db' = r.db
    /\ last' = [op |-> op, arg |-> arg, ret |-> r.ret, exc |-> r.exc, pre |-> db]
    /\ prev' = Summary(last)
    /\ calls' = calls + 1
    /\ UNCHANGED <<handler_data, dicts, frames, batch, search>>

CallHandlerSave ==
    /\ calls < MaxCalls
    /\ \E hd \in HandlerPayloads(db) :
          \E r \in {HandlerManager_save(db, hd)} : Record("HandlerManager.save", hd, r)

CallManifestHandlerSave ==
    /\ calls < MaxCalls
    /\ \E md \in ManifestHandlerPayloads :
          \E r \in {ManifestHandlerManager_save(db, md)} :
              Record("ManifestHandlerManager.save", md, r)

Next == CallHandlerSave \/ CallManifestHandlerSave

Spec == Init /\ [][Next]_vars

---------------------------------------------------------------------------
(* Two HandlerManager.save calls running concurrently on the one manager   *)
(* object (Handler.objects) and the one store, interleaved by statement.   *)

Machine == [db |-> db, hd |-> handler_data, dicts |-> dicts, fr |-> frames]

Install(m) ==
    /\ db' = m.db
    /\ handler_data' = m.hd
    /\ dicts' = m.dicts
    /\ frames' = m.fr
    /\ UNCHANGED <<last, prev, calls, batch, search>>

RacePayloads == PhonePayloads \cup DefectivePayloads

\* a caller enters save(**hd)
RaceCall(p) ==
    /\ frames[p].pc = "idle"
    /\ \E hd \in RacePayloads :
          /\ dicts' = [dicts EXCEPT ![p] = hd]
          /\ frames' = [frames EXCEPT ![p] = [NewFrame EXCEPT !.arg = hd]]
    /\ UNCHANGED <<db, handler_data, last, prev, calls, batch, search>>

RaceCheck(p) == frames[p].pc = "check" /\ Install(StepCheck(Machine, p))

RaceAssign(p) == frames[p].pc = "assign" /\ Install(StepAssign(Machine, p))

RaceContact(p) == frames[p].pc = "contact" /\ Install(StepContact(Machine, p))

RacePhone(p) == frames[p].pc = "phone" /\ Install(get_emergency_phone(Machine, p))

RaceSite(p) ==
    frames[p].pc = "site" /\ Install(get_address(Machine, p, "site_address", "mail"))

RaceMail(p) ==
    frames[p].pc = "mail" /\ Install(get_address(Machine, p, "mail_address", "create"))

RaceCreate(p) == frames[p].pc = "create" /\ Install(StepCreate(Machine, p))

RaceNext ==
    \E p \in Procs :
        \/ RaceCall(p)
        \/ RaceCheck(p)
        \/ RaceAssign(p)
        \/ RaceContact(p)
        \/ RacePhone(p)
        \/ RaceSite(p)
        \/ RaceMail(p)
        \/ RaceCreate(p)

SpecRace == Init /\ [][RaceNext]_vars

SpecBatch == Init /\ [][BatchNext]_vars

SpecSearch == Init /\ [][SearchNext]_vars

---------------------------------------------------------------------------
(* Properties of the managers *)

HSave == "HandlerManager.save"

MHSave == "ManifestHandlerManager.save"

\* the last call inserted a Handler row and returned it
CreatedHandler ==
    /\ last.op = HSave
    /\ Len(db.handlers) = Len(last.pre.handlers) + 1
    /\ last.ret = Len(db.handlers)

\* C1: when a HandlerManager.save call returned a Handler and the next call
\* is HandlerManager.save with the same epa_id, whatever else its payload
\* carries, that call returns the same Handler without raising and leaves
\* every table of the store, the Handler row included, as it was.
C1_IdempotentGetOrCreate ==
    (/\ prev.op = HSave /\ prev.ret # None
     /\ last.op = HSave
     /\ "epa_id" \in DOMAIN last.arg
     /\ last.arg.epa_id = prev.epa_id)
    => (last.ret = prev.ret /\ last.exc = "none" /\ db = last.pre)

\* C1 witness: the first call created the Handler, the second names the same
\* epa_id with other nested values and gets the first call's Handler back
C1_Witness ==
    /\ calls = 2
    /\ prev.op = HSave /\ prev.ret = 1
    /\ last.op = HSave /\ last.ret = 1
    /\ "epa_id" \in DOMAIN last.arg
    /\ last.arg.epa_id = db.handlers[1].epa_id
    /\ last.arg.name # db.handlers[1].name
    /\ {"contact", "emergency_phone", "site_address", "mail_address"} \subseteq DOMAIN last.arg
    /\ db.contacts[db.handlers[1].contact] # last.arg.contact

\* C2: in every state reached by HandlerManager.save and
\* ManifestHandlerManager.save calls, no two Handler rows have the same epa_id.
C2_UniqueEpaId ==
    \A i, j \in 1..Len(db.handlers) :
        db.handlers[i].epa_id = db.handlers[j].epa_id => i = j

\* C2 witness: both managers were asked for the same epa_id and one Handler exists
C2_Witness ==
    /\ calls = 2
    /\ prev.op = HSave /\ prev.ret = 1
    /\ last.op = MHSave /\ last.ret # None
    /\ last.arg.handler.epa_id = prev.epa_id
    /\ Len(db.handlers) = 1

MissingHandlerKey(md) ==
    "handler" \notin DOMAIN md \/ "epa_id" \notin DOMAIN md.handler

\* C7: a ManifestHandlerManager.save call whose payload lacks the handler
\* block or its epa_id returns None without raising and has created no row
\* of any table, also when the payload carries a paper_signature block.
C7_MissingKeyCreatesNothing ==
    (last.op = MHSave /\ MissingHandlerKey(last.arg))
    => (last.ret = None /\ last.exc = "none" /\ db = last.pre)

RawInputs(hd) ==
    {k \in {"site_address", "mail_address"} : k \in DOMAIN hd /\ hd[k].kind = "raw"}

\* C8: when HandlerManager.save creates a Handler, an address input that is
\* an Address is the Handler's address and adds no row, an input of raw
\* fields becomes one new Address row holding them; the call adds as many
\* Address rows as it has raw inputs and leaves the older rows alone.
C8_AddressReuse ==
    CreatedHandler =>
        /\ Len(db.addresses) = Len(last.pre.addresses) + Cardinality(RawInputs(last.arg))
        /\ SubSeq(db.addresses, 1, Len(last.pre.addresses)) = last.pre.addresses
        /\ \A k \in {"site_address", "mail_address"} :
              IF last.arg[k].kind = "ref"
              THEN db.handlers[last.ret][k] = last.arg[k].id
              ELSE /\ db.handlers[last.ret][k] > Len(last.pre.addresses)
                   /\ db.addresses[db.handlers[last.ret][k]] = last.arg[k].data
        /\ (RawInputs(last.arg) = {"site_address", "mail_address"}
              => db.handlers[last.ret].site_address # db.handlers[last.ret].mail_address)

\* C8 witness: a Handler created from one existing Address and one raw address
C8_Witness ==
    /\ CreatedHandler
    /\ last.arg.site_address.kind = "ref"
    /\ last.arg.mail_address.kind = "raw"
    /\ Len(db.addresses) = Len(last.pre.addresses) + 1

HasSignatureBlock(md) ==
    \/ "paper_signature" \in DOMAIN md
    \/ ("e_signatures" \in DOMAIN md /\ md.e_signatures # <<>>)

\* C9: a ManifestHandler that ManifestHandlerManager.save returns is signed
\* exactly when the payload carried a paper_signature block or a non-empty
\* e_signatures list, and the call changes the signed state of no older
\* ManifestHandler.
C9_SignedAfterAssembly ==
    (last.op = MHSave /\ last.ret # None) =>
        /\ signed(db, last.ret) <=> HasSignatureBlock(last.arg)
        /\ \A mh \in 1..Len(last.pre.mhs) : signed(db, mh) <=> signed(last.pre, mh)

\* C9 witness: a second ManifestHandler signed by one e-signature alone,
\* after a first one that carries no signature
C9_Witness ==
    /\ last.op = MHSave /\ last.ret = 2
    /\ "paper_signature" \notin DOMAIN last.arg
    /\ "e_signatures" \in DOMAIN last.arg
    /\ last.arg.e_signatures = <<"ok">>
    /\ signed(db, 2)
    /\ ~signed(db, 1)

\* C3: when two concurrent HandlerManager.save calls for one epa_id have
\* both passed the existence check and reached the insert, and one of them
\* has inserted the Handler, the other neither returns that Handler nor has
\* its failure caught: it ends with an uncaught IntegrityError (leftover
\* keyword clashes aside), unless a second Handler of that epa_id exists.
C3_CheckThenActRace ==
    \A p, q \in Procs :
        (/\ p # q
         /\ frames[p].at = "create" /\ frames[q].at = "create"
         /\ frames[q].pc = "returned" /\ frames[q].ret # None
         /\ Scalar(dicts[p], "epa_id") = Scalar(dicts[q], "epa_id")
         /\ frames[p].exc # "TypeError")
        => \/ frames[p].pc = "raised" /\ frames[p].exc = "IntegrityError"
           \/ ~C2_UniqueEpaId

\* C3 witness: both calls passed the check while no Handler existed, one
\* inserted it and the other raised IntegrityError out of save
C3_Witness ==
    /\ frames[1].at = "create" /\ frames[1].pc = "returned" /\ frames[1].ret = 1
    /\ frames[2].at = "create" /\ frames[2].pc = "raised"
    /\ frames[2].exc = "IntegrityError"
    /\ dicts[1].epa_id = dicts[2].epa_id
    /\ Len(db.handlers) = 1

\* C13: a HandlerManager.save call whose payload has no contact key, for an
\* epa_id that has no Handler, returns None without raising and leaves the
\* store as it was: no Handler, Contact, EpaPhone or Address row is made.
C13_MissingContactAborts ==
    (/\ last.op = HSave
     /\ "contact" \notin DOMAIN last.arg
     /\ ~HandlerExists(last.pre, last.arg))
    => (last.ret = None /\ last.exc = "none" /\ db = last.pre)

\* C13 witness: the payload named a new epa_id and carried an emergency
\* phone and both addresses, only the contact was missing
C13_Witness ==
    /\ last.op = HSave
    /\ DOMAIN last.arg = {"epa_id", "name", "emergency_phone", "site_address", "mail_address"}
    /\ last.arg.emergency_phone # "null"
    /\ ~HandlerExists(last.pre, last.arg)
    /\ last.ret = None /\ last.exc = "none"
    /\ db = last.pre

\* the nested handler names an epa_id that has no Handler, and has no contact
NestedWithoutContact(d, md) ==
    /\ "handler" \in DOMAIN md
    /\ "epa_id" \in DOMAIN md.handler
    /\ "contact" \notin DOMAIN md.handler
    /\ ~HandlerExists(d, md.handler)

\* C15: every ManifestHandler row references one existing Handler row; and
\* a ManifestHandlerManager.save call whose nested handler, of a new epa_id,
\* lacks its contact (so that HandlerManager.save returns None) ends with
\* the IntegrityError of the insert and has persisted no ManifestHandler.
C15_ManifestHandlerHasHandler ==
    /\ \A i \in 1..Len(db.mhs) : db.mhs[i].handler \in 1..Len(db.handlers)
    /\ (last.op = MHSave /\ NestedWithoutContact(last.pre, last.arg))
          => /\ last.ret = None /\ last.exc = "IntegrityError"
             /\ db.mhs = last.pre.mhs
             /\ db.handlers = last.pre.handlers

\* C15 witness: a ManifestHandler exists, and the next call, whose nested
\* handler has no contact, has added none
C15_Witness ==
    /\ last.op = MHSave
    /\ NestedWithoutContact(last.pre, last.arg)
    /\ last.exc = "IntegrityError"
    /\ Len(db.mhs) = 1 /\ db.mhs[1].handler = 1
    /\ Len(db.handlers) = 1

\* the ManifestHandler rows whose Handler has the epa_id e
ManifestHandlersOf(d, e) ==
    {i \in 1..Len(d.mhs) : d.handlers[d.mhs[i].handler].epa_id = e}

\* the nested handler names an epa_id that has a Handler
NestedExists(d, md) ==
    /\ "handler" \in DOMAIN md
    /\ "epa_id" \in DOMAIN md.handler
    /\ \E i \in 1..Len(d.handlers) : d.handlers[i].epa_id = md.handler.epa_id

\* C16: a ManifestHandlerManager.save call whose nested handler names an
\* epa_id that has a Handler makes exactly one ManifestHandler row, which
\* references that Handler, and makes no Handler, Address, Contact or
\* EpaPhone row; the ManifestHandlers of that epa_id are then the ones there
\* were and the new one, all referencing the one Handler, so that k
\* assemblies naming the epa_id leave k ManifestHandlers on one Handler.
C16_HandlerSharing ==
    (last.op = MHSave /\ NestedExists(last.pre, last.arg)) =>
        LET h == HandlerGet(last.pre, last.arg.handler)
            new == Len(last.pre.mhs) + 1
            of == ManifestHandlersOf(db, last.arg.handler.epa_id)
        IN  /\ Len(db.mhs) = new
            /\ SubSeq(db.mhs, 1, new - 1) = last.pre.mhs
            /\ db.mhs[new].handler = h
            /\ last.ret \in {new, None}
            /\ db.handlers = last.pre.handlers
            /\ db.addresses = last.pre.addresses
            /\ db.contacts = last.pre.contacts
            /\ db.phones = last.pre.phones
            /\ of = ManifestHandlersOf(last.pre, last.arg.handler.epa_id) \cup {new}
            /\ \A i \in of : db.mhs[i].handler = h

\* C16 witness: two assemblies naming one epa_id with different nested
\* fields have both returned their ManifestHandler; the first made the
\* Handler, the second shares it
C16_Witness ==
    /\ calls = 2
    /\ prev.op = MHSave /\ prev.ret = 1
    /\ last.op = MHSave /\ last.ret = 2
    /\ NestedExists(last.pre, last.arg)
    /\ last.arg.handler.name # db.handlers[1].name
    /\ Len(db.handlers) = 1 /\ Len(db.contacts) = 1 /\ Len(db.addresses) = 2
    /\ db.mhs[1].handler = 1 /\ db.mhs[2].handler = 1

\* C17: a ManifestHandlerManager.save call that returns its ManifestHandler
\* has made one PaperSignature row, holding the payload's block and
\* referenced by the new ManifestHandler, when the payload has a
\* paper_signature block, and none otherwise; and one ESignature row per
\* entry of e_signatures, each referencing the new ManifestHandler (whose
\* key exists only once its row is inserted); older signature rows are
\* untouched, and with both blocks absent no signature row is made.
C17_SignatureAttachment ==
    (last.op = MHSave /\ last.ret # None) =>
        LET paper == IF "paper_signature" \in DOMAIN last.arg THEN 1 ELSE 0
            entries == ESignatureEntries(last.arg)
        IN  /\ last.ret = Len(db.mhs) /\ Len(db.mhs) = Len(last.pre.mhs) + 1
            /\ Len(db.papers) = Len(last.pre.papers) + paper
            /\ SubSeq(db.papers, 1, Len(last.pre.papers)) = last.pre.papers
            /\ IF paper = 1
               THEN /\ db.mhs[last.ret].paper_signature = Len(db.papers)
                    /\ db.papers[Len(db.papers)] = last.arg.paper_signature
               ELSE db.mhs[last.ret].paper_signature = None
            /\ Len(db.esigs) = Len(last.pre.esigs) + Len(entries)
            /\ SubSeq(db.esigs, 1, Len(last.pre.esigs)) = last.pre.esigs
            /\ \A i \in (Len(last.pre.esigs) + 1)..Len(db.esigs) :
                  db.esigs[i].manifest_handler = last.ret
            /\ (paper = 0 /\ entries = <<>>)
                  => (db.papers = last.pre.papers /\ db.esigs = last.pre.esigs)

\* C17 witness: a second ManifestHandler with a paper signature and two
\* e-signatures of its own, after a first one that has signatures too
C17_Witness ==
    /\ last.op = MHSave /\ last.ret = 2
    /\ "paper_signature" \in DOMAIN last.arg
    /\ ESignatureEntries(last.arg) = <<"ok", "ok">>
    /\ Len(last.pre.esigs) > 0
    /\ Len(db.esigs) = Len(last.pre.esigs) + 2
    /\ db.mhs[2].paper_signature = Len(db.papers)
    /\ db.mhs[1].paper_signature # None

\* a payload with an epa_id, its contact and both addresses
Complete(hd) == {"epa_id", "contact", "site_address", "mail_address"} \subseteq DOMAIN hd

\* the Handler row h and the rows it references hold the fields of payload hd
MadeFrom(d, h, hd) ==
    /\ d.handlers[h].epa_id = hd.epa_id
    /\ d.handlers[h].name = hd.name
    /\ d.contacts[d.handlers[h].contact] = hd.contact
    /\ d.addresses[d.handlers[h].site_address] = hd.site_address.data
    /\ d.addresses[d.handlers[h].mail_address] = hd.mail_address.data
    /\ IF "emergency_phone" \in DOMAIN hd /\ hd.emergency_phone # "null"
       THEN /\ d.handlers[h].emergency_phone # None
            /\ d.phones[d.handlers[h].emergency_phone] = hd.emergency_phone
       ELSE d.handlers[h].emergency_phone = None

\* C19: when two HandlerManager.save calls with complete payloads for two
\* different epa_ids, neither of which had a Handler, run concurrently on
\* the one manager, a call that has ended has returned a Handler made from
\* its own payload: its own epa_id, name, contact, emergency phone and
\* addresses, and it has not failed.
C19_NoCrossTalk ==
    \A p, q \in Procs :
        (/\ p # q
         /\ frames[p].pc \in Terminal /\ frames[q].pc # "idle"
         /\ Complete(frames[p].arg) /\ Complete(frames[q].arg)
         /\ frames[p].arg.epa_id # frames[q].arg.epa_id)
        => /\ frames[p].pc = "returned"
           /\ frames[p].ret # None
           /\ MadeFrom(db, frames[p].ret, frames[p].arg)

---------------------------------------------------------------------------
(* Properties of pull_manifests *)

Range(seq) == {seq[k] : k \in 1..Len(seq)}

\* the values the log entries of one list carry, in log order
RECURSIVE Listed(_, _)
Listed(log, list) ==
    IF log = <<>> THEN <<>>
    ELSE IF Head(log).list = list
    THEN <<Head(log).mtn>> \o Listed(Tail(log), list)
    ELSE Listed(Tail(log), list)

\* C4: when pull_manifests returns, the MTNs of success and error together
\* are exactly the input MTNs, and no MTN is in both lists.
C4_BatchPartition ==
    batch.pc = "done" =>
        /\ Range(batch.results.success) \cup Range(batch.results.error)
              = Range(batch.tracking_numbers)
        /\ Range(batch.results.success) \cap Range(batch.results.error) = {}

\* C5: pull_manifests never ends by an exception and can always take its
\* next turn; after k turns it has fetched exactly the first k input MTNs, in
\* input order, once each, whatever failed before; each turn appended one
\* entry to success or to error, a failed turn its own MTN, so both lists
\* are in processing order; and it returns only after the last input MTN.
C5_BatchNeverAborts ==
    /\ batch.pc \in {"idle", "loop", "done"}
    /\ batch.pc = "loop" => ENABLED (PullItem \/ PullReturn)
    /\ batch.i \in 1..(Len(batch.tracking_numbers) + 1)
    /\ batch.fetched = SubSeq(batch.tracking_numbers, 1, batch.i - 1)
    /\ batch.pc = "done" => batch.fetched = batch.tracking_numbers
    /\ Len(batch.log) = batch.i - 1
    /\ \A k \in 1..Len(batch.log) :
          /\ batch.log[k].index = k
          /\ batch.log[k].list = "error" => batch.log[k].mtn = batch.tracking_numbers[k]
    /\ batch.results.success = Listed(batch.log, "success")
    /\ batch.results.error = Listed(batch.log, "error")

\* C5 witness: a batch of two returned, its first item failed in assembly
\* and its second was still fetched and saved
C5_Witness ==
    /\ batch.pc = "done"
    /\ Len(batch.tracking_numbers) = 2
    /\ batch.log[1].list = "error"
    /\ batch.log[2].list = "success"
    /\ batch.item.stage = "save"
    /\ Len(db.manifests) = 1

\* C6: when _save_manifest raises, the store is what it was before the
\* call: no row of any table made during the attempt is kept.
C6_AssemblyIsAtomic ==
    (batch.item.stage = "save" /\ batch.item.exc # "none") => db = batch.item.pre

\* C6 witness: the attempt had created a Handler with its Contact and
\* Addresses, a ManifestHandler and one ESignature when the next ESignature
\* failed, and none of these rows is in the store
C6_Witness ==
    /\ batch.item.stage = "save"
    /\ batch.item.exc = "IntegrityError"
    /\ Len(batch.item.attempt.esigs) > Len(batch.item.pre.esigs)
    /\ Len(batch.item.attempt.mhs) > Len(batch.item.pre.mhs)
    /\ Len(batch.item.attempt.handlers) > Len(batch.item.pre.handlers)
    /\ Len(batch.item.attempt.contacts) > Len(batch.item.pre.contacts)
    /\ Len(batch.item.attempt.addresses) > Len(batch.item.pre.addresses)
    /\ batch.item.attempt.manifests = batch.item.pre.manifests
    /\ db = batch.item.pre

\* the nested handler names an epa_id and has its contact, and lacks an address
LacksAddress(md) ==
    /\ "handler" \in DOMAIN md
    /\ {"epa_id", "contact"} \subseteq DOMAIN md.handler
    /\ {"site_address", "mail_address"} \ DOMAIN md.handler # {}

\* the last item that reached _save_manifest: the document's last handler
\* block lacks an address, its epa_id has no Handler, any block before it is
\* a complete one of another epa_id
AddressDefect(item) ==
    /\ item.stage = "save"
    /\ item.doc.wellformed
    /\ \E n \in {Len(item.doc.handlers)} :
          /\ LacksAddress(item.doc.handlers[n])
          /\ ~HandlerExists(item.pre, item.doc.handlers[n].handler)
          /\ \A k \in 1..(n - 1) : item.doc.handlers[k] = GeneratorBlock
          /\ item.doc.handlers[n].handler.epa_id # GeneratorBlock.handler.epa_id

\* C14: when the nested handler of a new epa_id lacks site_address or
\* mail_address, the ValidationError of get_address passes through
\* HandlerManager.save and ManifestHandlerManager.save and reaches
\* pull_manifests; the attempt has made no Handler of that epa_id and no
\* ManifestHandler for the block, nothing of the attempt is in the store,
\* and the item's MTN is the entry appended to error.
C14_AddressFailurePropagates ==
    AddressDefect(batch.item) =>
        LET item == batch.item
            block == item.doc.handlers[Len(item.doc.handlers)]
        IN  /\ item.exc = "ValidationError"
            /\ ~HandlerExists(item.attempt, block.handler)
            /\ Len(item.attempt.mhs) = Len(item.pre.mhs) + Len(item.doc.handlers) - 1
            /\ db.handlers = item.pre.handlers /\ db.mhs = item.pre.mhs
            /\ batch.log[Len(batch.log)] =
                   [list |-> "error", index |-> Len(batch.log), mtn |-> item.mtn]
            /\ batch.results.error[Len(batch.results.error)] = item.mtn

\* C14 witness: the second block of a document lacked its site_address; its
\* Contact had been made when get_address raised, and the MTN is under error
C14_Witness ==
    /\ AddressDefect(batch.item)
    /\ Len(batch.item.doc.handlers) = 2
    /\ "site_address" \notin DOMAIN batch.item.doc.handlers[2].handler
    /\ batch.item.exc = "ValidationError"
    /\ Len(batch.item.attempt.contacts) = Len(batch.item.pre.contacts) + 2
    /\ batch.results.error # <<>>

Tables == DOMAIN EmptyDb

\* C18: in pull_manifests an item that failed, in the fetch or in the
\* assembly, leaves the store exactly as it was after the item before it,
\* and its MTN under error; an item never removes or changes a row that was
\* there; a response that is not ok ends the item at the fetch, with no
\* persistence attempt; and whatever happened before, while an MTN is free
\* the next item can be persisted, reusing the Handlers there are.
C18_PerItemIndependence ==
    /\ batch.item.stage # "none" =>
          /\ batch.item.exc # "none" =>
                /\ db = batch.item.pre
                /\ batch.log[Len(batch.log)].list = "error"
          /\ \A t \in Tables : SubSeq(db[t], 1, Len(batch.item.pre[t])) = batch.item.pre[t]
          /\ ~batch.item.ok =>
                /\ batch.item.stage = "retrieve"
                /\ batch.item.exc = "RequestException"
                /\ batch.item.attempt = batch.item.pre
          /\ batch.item.ok => batch.item.stage = "save"
    /\ (/\ batch.pc = "loop"
        /\ batch.i <= Len(batch.tracking_numbers)
        /\ Len(db.manifests) < Cardinality(MTNs))
          => \E response \in Responses :
                \E o \in {PullOutcome(batch, db, batch.tracking_numbers[batch.i], response)} :
                    /\ o.batch.item.exc = "none"
                    /\ Len(o.db.manifests) = Len(db.manifests) + 1
                    /\ (db.handlers # <<>> =>
                           (o.db.handlers = db.handlers /\ Len(o.db.mhs) > Len(db.mhs)))

\* C18 witness: a batch of two; the first item was persisted, the second
\* failed in assembly after its attempt had made rows, and the store is
\* the one the first item left
C18_Witness ==
    /\ batch.pc = "done"
    /\ Len(batch.tracking_numbers) = 2
    /\ batch.log[1].list = "success" /\ batch.log[2].list = "error"
    /\ batch.item.stage = "save"
    /\ batch.item.attempt # batch.item.pre
    /\ db = batch.item.pre
    /\ Len(db.manifests) = 1 /\ Len(db.handlers) > 0

---------------------------------------------------------------------------
(* Properties of search_rcra_mtn *)

\* the query key of each filter keyword
QueryKey(key) ==
    CASE key = "site_id" -> "siteId"
      [] key = "status" -> "status"
      [] key = "date_type" -> "dateType"
      [] key = "state_code" -> "stateCode"
      [] key = "site_type" -> "siteType"

Filters == {"site_id", "status", "date_type", "state_code", "site_type"}

\* the filters the caller gave a value
SuppliedFilters(kw) == {k \in Filters : k \in DOMAIN kw /\ kw[k] # PyNone}

\* C10 as stated: the query has a key only for the filters the caller
\* supplied, plus endDate and startDate; with site_id alone its keys are
\* exactly siteId, endDate and startDate.
C10_OnlySuppliedKeys ==
    search.pc # "idle" =>
        DOMAIN search.params
            = {QueryKey(k) : k \in SuppliedFilters(search.kwargs)} \cup {"endDate", "startDate"}

\* C10 amended: the query has the keys endDate and startDate, the key of
\* every filter the caller gave a value, and dateType with the value
\* UpdatedDate when the caller did not pass date_type at all; it has no other
\* key and no None value.  With site_id alone its keys are exactly siteId,
\* dateType, endDate and startDate.
C10_NullFilterOmission ==
    search.pc # "idle" =>
        /\ DOMAIN search.params
              = {QueryKey(k) : k \in SuppliedFilters(search.kwargs)}
                  \cup {"endDate", "startDate"}
                  \cup (IF "date_type" \in DOMAIN search.kwargs THEN {} ELSE {"dateType"})
        /\ \A k \in DOMAIN search.params : search.params[k] # PyNone
        /\ \A k \in SuppliedFilters(search.kwargs) :
              search.params[QueryKey(k)] = search.kwargs[k]
        /\ "date_type" \notin DOMAIN search.kwargs
              => search.params.dateType = Str("UpdatedDate")
        /\ DOMAIN search.kwargs = {"site_id"} /\ search.kwargs.site_id # PyNone
              => DOMAIN search.params = {"siteId", "dateType", "endDate", "startDate"}

\* C10 witness: a search by site_id alone has been sent
C10_Witness ==
    /\ search.pc = "sent"
    /\ DOMAIN search.kwargs = {"site_id"}
    /\ search.kwargs.site_id = Str("VAT000000000")
    /\ DOMAIN search.params = {"siteId", "dateType", "endDate", "startDate"}

\* C11: when search_rcra_mtn is called with neither start_date nor end_date,
\* the end date sent is the current UTC time, and the start date sent lies
\* about 3 years (1095 days, give or take a fortnight) before the end date.
C11_DateWindowDefault ==
    (/\ search.pc # "idle"
     /\ ~Truthy(Arg(search.kwargs, "start_date"))
     /\ ~Truthy(Arg(search.kwargs, "end_date")))
    => /\ search.params.endDate = strftime(search.now[1])
       /\ (search.params.endDate.val[2] - search.params.startDate.val[2])
              \in ((1095 - 14) * 86400)..((1095 + 14) * 86400)

\* C12: when search_rcra_mtn has ended and the response was not ok, it
\* returned the empty list and raised nothing; when the response was ok (and
\* its body a JSON list) it returned exactly that list.
C12_SearchDegradesToEmpty ==
    search.pc \in {"returned", "raised"} =>
        IF search.response.ok
        THEN search.response.parses
                => (search.pc = "returned" /\ search.ret = search.response.json)
        ELSE search.pc = "returned" /\ search.ret = <<>>

=============================================================================
